---------------------------- MODULE Spec2Model ----------------------------
(***************************************************************************)
(* A model of tarfs, a read-only Linux file system over a tar archive on a *)
(* block device: the block reader (device.c), the header decoder, the      *)
(* indexer and the payload reader (tar.c), and the VFS handlers            *)
(* (driver.c).                                                             *)
(*                                                                         *)
(* Bytes are naturals 0..255 and C strings are sequences of bytes without  *)
(* their terminating NUL.  The device is kept in the state as a sequence   *)
(* of 512-byte sectors in a compact form; every byte the code reads is     *)
(* computed from it by SectorBytes.  Memory allocation succeeds.           *)
(***************************************************************************)
EXTENDS Integers, Sequences, FiniteSets, TLC

(***************************************************************************)
(* Bounds of the model.                                                    *)
(***************************************************************************)
\* Most members of a well-ended archive, when the index is explored.
MaxEntries == 3

\* Most valid headers in front of a bad header.
MaxBadEntries == 2

\* Most members of an archive, when files are read.
MaxReadEntries == 2

\* Most members of an archive on a device with a faulty block.
MaxFaultEntries == 1

\* The faulty block is one of the blocks 0..MaxBadBlock.
MaxBadBlock == 2

\* Most read calls on one open file.
MaxReads == 3

\* Most readdir calls on one open directory.
MaxCalls == 2

\* A consumer of a listing that stops takes at most MaxCap entries in a call.
MaxCap == 2

VARIABLES
  dev,          \* the block device: a sequence of sectors
  s_blocksize,  \* sb->s_blocksize
  bad,          \* the blocks whose fetch fails or has the wrong size
  pc,           \* "unmounted", "mounted", "failed" or "oops"
  s_fs_info,    \* sb->s_fs_info: the entry list, a sequence of tar_entry
  ret,          \* what tarfs_fill_sb returned
  cur,          \* the inode the path walk stands on
  h             \* the open file or directory, or the last lookup's result

vars == <<dev, s_blocksize, bad, pc, s_fs_info, ret, cur, h>>

(***************************************************************************)
(* C helpers.                                                              *)
(***************************************************************************)
NUL == 0

SLASH == 47

SECTOR == 512

NULL == 0

min_t(a, b) == IF a < b THEN a ELSE b

\* ALIGN_SECTOR without its test for an aligned x: it pads an aligned x by a
\* whole sector.
ALIGN_SECTOR_always(x) == SECTOR - (x % SECTOR)

\* #define ALIGN_SECTOR(x): the padding that takes x to the next multiple of 512.
ALIGN_SECTOR(x) == IF x % SECTOR > 0 THEN SECTOR - (x % SECTOR) ELSE 0

\* strcmp(a, b) == 0
streq(a, b) == a = b

\* memchr(s, 0, n) - s: the index (from 0) of the first NUL among the first n
\* bytes of field s, or -1 for a null result.
RECURSIVE memchr0(_, _, _)
memchr0(s, i, n) ==
  IF i >= n THEN -1
  ELSE IF s[i + 1] = NUL THEN i
  ELSE memchr0(s, i + 1, n)

\* strrchr(s, '/'): the index (from 1) of the last '/' of s, or 0 for none.
RECURSIVE strrchr(_, _)
strrchr(s, i) ==
  IF i = 0 THEN 0
  ELSE IF s[i] = SLASH THEN i
  ELSE strrchr(s, i - 1)

(***************************************************************************)
(* struct star_header, the header record of a GNU tar archive: each field  *)
(* with its byte offset and its width.                                     *)
(***************************************************************************)
star_header ==
  [ name     |-> [off |-> 0,   len |-> 100],
    mode     |-> [off |-> 100, len |-> 8],
    uid      |-> [off |-> 108, len |-> 8],
    gid      |-> [off |-> 116, len |-> 8],
    size     |-> [off |-> 124, len |-> 12],
    mtime    |-> [off |-> 136, len |-> 12],
    chksum   |-> [off |-> 148, len |-> 8],
    typeflag |-> [off |-> 156, len |-> 1],
    linkname |-> [off |-> 157, len |-> 100],
    magic    |-> [off |-> 257, len |-> 6],
    version  |-> [off |-> 263, len |-> 2],
    uname    |-> [off |-> 265, len |-> 32],
    gname    |-> [off |-> 297, len |-> 32],
    devmajor |-> [off |-> 329, len |-> 8],
    devminor |-> [off |-> 337, len |-> 8],
    prefix   |-> [off |-> 345, len |-> 131],
    atime    |-> [off |-> 476, len |-> 12],
    ctime    |-> [off |-> 488, len |-> 12] ]

\* sizeof(struct star_header)
SizeofHeader == 500

\* OLDGNU_MAGIC, "ustar  ": memcmp compares the six bytes of the magic field.
OLDGNU_MAGIC == <<117, 115, 116, 97, 114, 32>>

\* The type flags: '0', NUL, '2', '3', '4', '5', '6'.
REGTYPE == 48

AREGTYPE == 0

SYMTYPE == 50

CHRTYPE == 51

BLKTYPE == 52

DIRTYPE == 53

FIFOTYPE == 54

\* The file type bits of a mode (linux/stat.h).
S_IFREG == 32768

S_IFDIR == 16384

S_IFLNK == 40960

S_IFCHR == 8192

S_IFBLK == 24576

S_IFIFO == 4096

(***************************************************************************)
(* The headers that occur on the devices of the model.                     *)
(***************************************************************************)
\* "a/", "a/b", "b", "a", "c"
Str_a_ == <<97, 47>>

Str_a_b == <<97, 47, 98>>

Str_b == <<98>>

Str_a == <<97>>

Str_c == <<99>>

\* The fields every well-formed header of the model has: mode 0000644,
\* uid and gid 0001750, mtime 00000001000, the magic "ustar " and its version.
BaseFields ==
  [ mode    |-> <<48, 48, 48, 48, 54, 52, 52>>,
    uid     |-> <<48, 48, 48, 49, 55, 53, 48>>,
    gid     |-> <<48, 48, 48, 49, 55, 53, 48>>,
    mtime   |-> <<48, 48, 48, 48, 48, 48, 48, 49, 48, 48, 48>>,
    magic   |-> OLDGNU_MAGIC,
    version |-> <<32>> ]

\* The octal text of n in width digits, as tar writes a numeric field.
RECURSIVE OctalDigits(_, _)
OctalDigits(n, width) ==
  IF width = 0 THEN <<>>
  ELSE Append(OctalDigits(n \div 8, width - 1), 48 + (n % 8))

\* The fields of the header of a member with a payload of n bytes.
HeaderOf(name, prefix, typeflag, n) ==
  [x \in DOMAIN BaseFields \cup {"name", "prefix", "typeflag", "size"} |->
     CASE x = "name"     -> name
       [] x = "prefix"   -> prefix
       [] x = "typeflag" -> <<typeflag>>
       [] x = "size"     -> OctalDigits(n, 11)
       [] OTHER          -> BaseFields[x]]

\* What makes a header bad: a size, mode, uid or gid that is not octal text,
\* or a wrong magic.
BadFields ==
  [ size  |-> <<48, 48, 53, 120>>,
    mode  |-> <<48, 48, 57>>,
    uid   |-> <<122>>,
    gid   |-> <<32, 49>>,
    magic |-> <<117, 115, 116, 97, 114, 0>> ]

\* The members: a directory "a/", a regular file whose name "a/" ends in a
\* slash, the files "a/b", "a/" + "b" (by its prefix) and "b", and the file "c"
\* that follows a bad header.  n is the length of the payload, seed its bytes.
Members ==
  [ dir    |-> [f |-> HeaderOf(Str_a_, <<>>, DIRTYPE, 0),    n |-> 0,   seed |-> 0],
    slash  |-> [f |-> HeaderOf(Str_a_, <<>>, REGTYPE, 0),    n |-> 0,   seed |-> 0],
    file   |-> [f |-> HeaderOf(Str_a_b, <<>>, REGTYPE, 5),   n |-> 5,   seed |-> 11],
    prefix |-> [f |-> HeaderOf(Str_b, Str_a_, REGTYPE, 3),   n |-> 3,   seed |-> 101],
    big    |-> [f |-> HeaderOf(Str_b, <<>>, REGTYPE, 520),   n |-> 520, seed |-> 42],
    after  |-> [f |-> HeaderOf(Str_c, <<>>, REGTYPE, 2),     n |-> 2,   seed |-> 7] ]

\* The members an archive is made of, and those of an archive on a device with
\* a faulty block.
MemberIds == {"dir", "slash", "file", "prefix", "big"}

FaultMemberIds == {"dir", "big"}

\* Every header by its name: the members', and the bad ones.
Headers ==
  [id \in DOMAIN Members \cup DOMAIN BadFields |->
     IF id \in DOMAIN Members THEN Members[id].f
     ELSE [Members.after.f EXCEPT ![id] = BadFields[id]]]

(***************************************************************************)
(* The block device.  A sector is one of                                   *)
(*   [k |-> "zero"]                     512 zero bytes                     *)
(*   [k |-> "hdr", id |-> id]           the header Headers[id]: every      *)
(*       field holds its bytes, the rest of the sector is zero             *)
(*   [k |-> "data", seed, base, n]      n payload bytes, then zeros: byte  *)
(*       i is byte base + i of the payload written with that seed          *)
(***************************************************************************)
PayloadByte(seed, i) == (seed + 7 * i) % 256

HdrFields == DOMAIN star_header

\* The field of star_header that holds byte i of a header sector, "pad" for the
\* bytes after the record.
FieldAt ==
  [i \in 0..(SECTOR - 1) |->
     IF \E m \in HdrFields :
          star_header[m].off <= i /\ i < star_header[m].off + star_header[m].len
     THEN CHOOSE n \in HdrFields :
            star_header[n].off <= i /\ i < star_header[n].off + star_header[n].len
     ELSE "pad"]

HdrByte(f, i) ==
  LET at == FieldAt[i]
  IN IF at \notin DOMAIN f THEN 0
     ELSE LET j == i - star_header[at].off
          IN IF j < Len(f[at]) THEN f[at][j + 1] ELSE 0

\* The 512 bytes of every header sector.
HdrImage == [id \in DOMAIN Headers |-> [i \in 1..SECTOR |-> HdrByte(Headers[id], i - 1)]]

\* The bytes [from, from + n) of sector s.
SectorBytes(s, from, n) ==
  CASE s.k = "zero" -> [i \in 1..n |-> 0]
    [] s.k = "hdr"  -> SubSeq(HdrImage[s.id], from + 1, from + n)
    [] s.k = "data" -> [i \in 1..n |->
                          IF from + i - 1 < s.n
                          THEN PayloadByte(s.seed, s.base + from + i - 1)
                          ELSE 0]

\* The bytes [off, off + n) of the device d.
RECURSIVE StoreBytes(_, _, _)
StoreBytes(d, off, n) ==
  IF n = 0 THEN <<>>
  ELSE LET from == off % SECTOR
           m == min_t(n, SECTOR - from)
       IN SectorBytes(d[(off \div SECTOR) + 1], from, m) \o StoreBytes(d, off + m, n - m)

\* The number of blocks of the device.
NBlocks == (Len(dev) * SECTOR) \div s_blocksize

(***************************************************************************)
(* device.c: the block reader.                                             *)
(*                                                                         *)
(* A null buffer head is dereferenced and a short buffer is read past its  *)
(* end: both are undefined.  Every call takes the outcome ub of undefined  *)
(* behaviour as a parameter, which the calling action chooses: the kernel  *)
(* thread dies in an oops, or the read yields junk bytes.                  *)
(***************************************************************************)
JunkBytes == {0, 255}

Oops == [k |-> "oops"]

UBOutcomes == {Oops} \cup {[k |-> "junk", b |-> b] : b \in JunkBytes}

\* sb_bread(sb, block): "ok", "null" (no buffer head), or a buffer head whose
\* b_size is half ("short") or twice ("long") the block size.  A block past the
\* end of the device cannot be read.
sb_bread(block) ==
  IF block >= NBlocks THEN "null"
  ELSE IF block \in DOMAIN bad THEN bad[block]
  ELSE "ok"

\* bh->b_size
b_size(kind) ==
  CASE kind = "short" -> s_blocksize \div 2
    [] kind = "long"  -> 2 * s_blocksize
    [] OTHER          -> s_blocksize

\* The memcpy without inner_off: it copies from the start of the block.
bh_copy_from_start(kind, block, inner_off, inner_size, ub) ==
  StoreBytes(dev, block * s_blocksize, inner_size)

\* memcpy(buffer, bh->b_data + inner_off, inner_size) from a buffer head that
\* holds the first b_size bytes of the block: what lies past them is junk.
bh_copy(kind, block, inner_off, inner_size, ub) ==
  LET inside == IF inner_off >= b_size(kind) THEN 0
                ELSE min_t(inner_size, b_size(kind) - inner_off)
  IN StoreBytes(dev, block * s_blocksize + inner_off, inside)
       \o [i \in 1..(inner_size - inside) |-> ub.b]

\* The loop of tarfs_read.  acc collects the destination buffer, the blocks
\* fetched and, for each fetch that failed or had the wrong size, the block,
\* what was wrong and the bytes copied from it.
RECURSIVE tarfs_read_loop(_, _, _, _, _)
tarfs_read_loop(size, offset, pos, acc, ub) ==
  IF size = 0 THEN [acc EXCEPT !.ret = pos]
  ELSE
    LET block      == (offset + pos) \div s_blocksize
        inner_off  == (offset + pos) % s_blocksize
        inner_size == min_t(s_blocksize - inner_off, size)
        bh         == sb_bread(block)
        undefined  == \/ bh = "null"
                      \/ inner_off + inner_size > b_size(bh)
        fetched    == [acc EXCEPT !.blocks = Append(@, block)]
    IN IF undefined /\ ub.k = "oops"
       THEN [fetched EXCEPT !.oops = TRUE,
                            !.faults = Append(@, [block |-> block, kind |-> bh, copied |-> 0])]
       ELSE
         LET bytes == IF bh = "null" THEN [i \in 1..inner_size |-> ub.b]
                      ELSE bh_copy(bh, block, inner_off, inner_size, ub)
             next  == [fetched EXCEPT
                         !.data = @ \o bytes,
                         !.faults = IF bh = "ok" THEN @
                                    ELSE Append(@, [block |-> block, kind |-> bh,
                                                    copied |-> inner_size])]
         IN tarfs_read_loop(size - inner_size, offset, pos + inner_size, next, ub)

\* size_t tarfs_read(buffer, size, offset, sb): ret is the returned count,
\* data the bytes left in the buffer, oops whether the call died.
tarfs_read(size, offset, ub) ==
  tarfs_read_loop(size, offset, 0,
                  [ret |-> 0, data |-> <<>>, blocks |-> <<>>, faults |-> <<>>, oops |-> FALSE],
                  ub)

(***************************************************************************)
(* tar.c: the header decoder.                                              *)
(***************************************************************************)
OCTAL == 8

\* The C string that starts at byte off of the header buffer hb: the bytes up
\* to the first NUL.  A numeric field with no NUL runs on into the next field.
RECURSIVE CStr(_, _)
CStr(hb, off) ==
  IF off >= Len(hb) \/ hb[off + 1] = NUL THEN <<>>
  ELSE <<hb[off + 1]>> \o CStr(hb, off + 1)

\* The value of the digits at the head of s, and how many there are
\* (_parse_integer: a character that is no digit of the base ends them).
RECURSIVE parse_integer(_, _, _, _)
parse_integer(s, base, i, acc) ==
  IF i > Len(s) THEN [v |-> acc, rv |-> i - 1]
  ELSE LET c == s[i]
           val == IF 48 <= c /\ c <= 57 THEN c - 48
                  ELSE IF 97 <= c /\ c <= 102 THEN c - 97 + 10
                  ELSE IF 65 <= c /\ c <= 70 THEN c - 65 + 10
                  ELSE base
       IN IF val >= base THEN [v |-> acc, rv |-> i - 1]
          ELSE parse_integer(s, base, i + 1, acc * base + val)

\* A kstrtouint that stops at the first character that is no digit and takes
\* what it has read, as simple_strtoul does.
kstrtouint_lenient(s, base) ==
  LET p == parse_integer(s, base, 1, 0)
  IN [ok |-> p.rv > 0, v |-> p.v]

\* kstrtouint(s, base, &res) and kstrtoul: an optional '+', at least one digit,
\* an optional newline, and then the end of the string; ok is "returned 0".
\* The values of the model stay below 2^31, so -ERANGE is not reached.
kstrtouint(s, base) ==
  LET t == IF Len(s) > 0 /\ s[1] = 43 THEN Tail(s) ELSE s
      p == parse_integer(t, base, 1, 0)
      r == SubSeq(t, p.rv + 1, Len(t))
      u == IF Len(r) > 0 /\ r[1] = 10 THEN Tail(r) ELSE r
  IN [ok |-> p.rv > 0 /\ u = <<>>, v |-> p.v]

\* The bytes of a field of the header buffer.
Field(hb, name) ==
  SubSeq(hb, star_header[name].off + 1, star_header[name].off + star_header[name].len)

\* build_name: prefix and name, each up to its first NUL, one after the other,
\* less one trailing '/'.  A field without a NUL, and a header whose two fields
\* are both empty, are undefined here and are given by no archive of the model.
build_name(hb) ==
  LET prefix_len == memchr0(Field(hb, "prefix"), 0, star_header.prefix.len)
      name_len   == memchr0(Field(hb, "name"), 0, star_header.name.len)
      name       == SubSeq(Field(hb, "prefix"), 1, prefix_len)
                      \o SubSeq(Field(hb, "name"), 1, name_len)
  IN IF name[prefix_len + name_len] = SLASH
     THEN SubSeq(name, 1, prefix_len + name_len - 1)
     ELSE name

\* tar_read_entry after its read of the header: rd is what tarfs_read returned.
decode_header(rd, offset) ==
  LET header == rd.data
      length == kstrtouint(CStr(header, star_header.size.off), OCTAL)
      mode   == kstrtouint(CStr(header, star_header.mode.off), OCTAL)
      uid    == kstrtouint(CStr(header, star_header.uid.off), OCTAL)
      gid    == kstrtouint(CStr(header, star_header.gid.off), OCTAL)
      pm     == kstrtouint(CStr(header, star_header.mtime.off), OCTAL)
      pa     == kstrtouint(CStr(header, star_header.atime.off), OCTAL)
      pc_    == kstrtouint(CStr(header, star_header.ctime.off), OCTAL)
      mtime  == IF pm.ok THEN pm.v ELSE 0
      full_name == build_name(header)
      slash  == strrchr(full_name, Len(full_name))
  IN IF rd.oops THEN [k |-> "oops"]
     ELSE IF rd.ret # SizeofHeader THEN [k |-> "null"]
     ELSE IF Field(header, "magic") # OLDGNU_MAGIC THEN [k |-> "null"]
     ELSE IF ~length.ok THEN [k |-> "null"]
     ELSE IF ~mode.ok THEN [k |-> "null"]
     ELSE IF ~uid.ok THEN [k |-> "null"]
     ELSE IF ~gid.ok THEN [k |-> "null"]
     ELSE [k |-> "entry",
           e |-> [ header      |-> [typeflag |-> header[star_header.typeflag.off + 1],
                                    linkname |-> CStr(header, star_header.linkname.off)],
                   dirname     |-> IF slash > 0 THEN SubSeq(full_name, 1, slash - 1)
                                   ELSE <<>>,
                   basename    |-> IF slash > 0
                                   THEN SubSeq(full_name, slash + 1, Len(full_name))
                                   ELSE full_name,
                   offset      |-> offset,
                   data_offset |-> offset + SizeofHeader + ALIGN_SECTOR(SizeofHeader),
                   length      |-> length.v,
                   inode       |-> 0,
                   mode        |-> mode.v % 65536,
                   uid         |-> uid.v,
                   gid         |-> gid.v,
                   atime       |-> IF pa.ok THEN pa.v ELSE mtime,
                   mtime       |-> mtime,
                   ctime       |-> IF pc_.ok THEN pc_.v ELSE mtime,
                   next        |-> NULL ]]

\* struct tar_entry *tar_read_entry(sb, offset): [k |-> "entry", e |-> the
\* entry], [k |-> "null"], or [k |-> "oops"] when the read died.
tar_read_entry(offset, ub) == decode_header(tarfs_read(SizeofHeader, offset, ub), offset)

(***************************************************************************)
(* tar.c: the indexer.  The linked list is a sequence of entries; a        *)
(* pointer to an entry is its index in it and NULL is 0.                   *)
(***************************************************************************)
\* The inode number tar_open gives the first entry.
FirstIno == 2

\* Where tar_open reads the header after parent's.
next_offset(parent) ==
  LET length == parent.data_offset + parent.length
  IN length + ALIGN_SECTOR(length)

\* The loop of tar_open: list holds the entries linked so far, parent is what
\* the last tar_read_entry returned, count the next inode number.
RECURSIVE tar_open_loop(_, _, _, _)
RECURSIVE tar_open_link(_, _, _, _, _)
\* The body of the loop without its count++: every entry gets the same number.
tar_open_link_same_count(list, parent, count, next, ub) ==
  tar_open_loop(Append(list, [parent EXCEPT
                                !.inode = count,
                                !.next  = IF next.k = "entry" THEN Len(list) + 2 ELSE NULL]),
                next, count, ub)

tar_open_loop(list, parent, count, ub) ==
  IF parent.k = "oops" THEN [oops |-> TRUE, list |-> list]
  ELSE IF parent.k = "null" THEN [oops |-> FALSE, list |-> list]
  ELSE tar_open_link(list, parent.e, count, tar_read_entry(next_offset(parent.e), ub), ub)

\* The body of the loop once the next entry is read: parent gets its inode
\* number and its next pointer, and next is the parent of the next round.
tar_open_link(list, parent, count, next, ub) ==
  tar_open_loop(Append(list, [parent EXCEPT
                                !.inode = count,
                                !.next  = IF next.k = "entry" THEN Len(list) + 2 ELSE NULL]),
                next, count + 1, ub)

\* struct tar_entry *tar_open(sb): the list, whose first entry (when there is
\* one) is at index 1.
tar_open(ub) == tar_open_loop(<<>>, tar_read_entry(0, ub), FirstIno, ub)

\* The pointer tar_open returns.
first(list) == IF Len(list) > 0 THEN 1 ELSE NULL

\* void tar_free(entry): every entry of the list is released.
tar_free(list) == <<>>

(***************************************************************************)
(* tar.c: the payload reader and the path lookup.                          *)
(***************************************************************************)
\* min_t(size_t, len, entry->length - off).  The difference is taken in
\* size_t: for off > length it wraps to 2^w - (off - length), w the width of
\* size_t (32 or 64), which is above every len of the model (all below 2^31),
\* so the minimum is len.
to_read(len, length, off) ==
  IF off <= length THEN min_t(len, length - off) ELSE len

\* size_t tar_read(sb, entry, off, buffer, len)
tar_read(entry, off, len, ub) ==
  tarfs_read(to_read(len, entry.length, off), entry.data_offset + off, ub)

\* struct tar_entry *tar_find(entry, dirname, basename): entry is a pointer
\* into list.
RECURSIVE tar_find(_, _, _, _)
tar_find(list, entry, dirname, basename) ==
  IF entry = NULL THEN NULL
  ELSE IF streq(list[entry].basename, basename) /\ streq(list[entry].dirname, dirname)
       THEN entry
  ELSE tar_find(list, list[entry].next, dirname, basename)

(***************************************************************************)
(* driver.c                                                                *)
(***************************************************************************)
ROOT_INO == 0

\* S_IFDIR | 0555
ROOT_INO_MODE == 16749

WRITE_MASK == 146

ENOMEM == 12

ENOENT == 2

EBADF == 9

\* a & b and a | b on the low n bits.
RECURSIVE BitAnd(_, _, _)
BitAnd(a, b, n) ==
  IF n = 0 THEN 0
  ELSE 2 * BitAnd(a \div 2, b \div 2, n - 1) + (IF a % 2 = 1 /\ b % 2 = 1 THEN 1 ELSE 0)

RECURSIVE BitOr(_, _, _)
BitOr(a, b, n) ==
  IF n = 0 THEN 0
  ELSE 2 * BitOr(a \div 2, b \div 2, n - 1) + (IF a % 2 = 1 \/ b % 2 = 1 THEN 1 ELSE 0)

\* mode_t tar_type_to_posix(int typeflag)
tar_type_to_posix(typeflag) ==
  CASE typeflag = REGTYPE \/ typeflag = AREGTYPE -> S_IFREG
    [] typeflag = DIRTYPE  -> S_IFDIR
    [] typeflag = SYMTYPE  -> S_IFLNK
    [] typeflag = CHRTYPE  -> S_IFCHR
    [] typeflag = BLKTYPE  -> S_IFBLK
    [] typeflag = FIFOTYPE -> S_IFIFO
    [] OTHER -> 0

\* struct tar_entry *tarfs_find_by_inode(entry, inode)
RECURSIVE tarfs_find_by_inode(_, _, _)
tarfs_find_by_inode(list, entry, inode) ==
  IF entry = NULL THEN NULL
  ELSE IF list[entry].inode = inode THEN entry
  ELSE tarfs_find_by_inode(list, list[entry].next, inode)

\* mode_t tarfs_entry_mode(entry): entry->mode & ~WRITE_MASK, or'ed with the type.
tarfs_entry_mode(entry) ==
  BitOr(BitAnd(entry.mode, 65535 - WRITE_MASK, 16),
        tar_type_to_posix(entry.header.typeflag), 16)

\* char *tarfs_full_name(entry)
tarfs_full_name(entry) ==
  IF Len(entry.dirname) < 1 THEN entry.basename
  ELSE entry.dirname \o <<SLASH>> \o entry.basename

\* struct inode *tarfs_build_inode(sb, entry); parent is the directory it was
\* looked up in.
tarfs_build_inode(entry, parent) ==
  [ i_ino  |-> entry.inode,
    i_mode |-> tarfs_entry_mode(entry),
    i_uid  |-> entry.uid,
    i_gid  |-> entry.gid,
    i_size |-> entry.length,
    i_link |-> IF entry.header.typeflag = SYMTYPE THEN entry.header.linkname ELSE <<>>,
    ops    |-> CASE entry.header.typeflag = DIRTYPE -> "dir"
                 [] entry.header.typeflag = SYMTYPE -> "symlink"
                 [] OTHER -> "file",
    parent |-> parent ]

\* The root inode tarfs_fill_sb makes.
RootInode ==
  [ i_ino |-> ROOT_INO, i_mode |-> ROOT_INO_MODE, i_uid |-> 0, i_gid |-> 0,
    i_size |-> 0, i_link |-> <<>>, ops |-> "dir", parent |-> ROOT_INO ]

\* A build_lookup_path that takes every directory for the root.
build_lookup_path_root(dir, list) == [null |-> FALSE, s |-> <<>>]

\* char *build_lookup_path(dir, entry): [null |-> TRUE] for a null result.
build_lookup_path(dir, list) ==
  IF dir.i_ino = ROOT_INO THEN [null |-> FALSE, s |-> <<>>]
  ELSE LET entry == tarfs_find_by_inode(list, first(list), dir.i_ino)
       IN IF entry = NULL THEN [null |-> TRUE, s |-> <<>>]
          ELSE [null |-> FALSE, s |-> tarfs_full_name(list[entry])]

\* The directory context of a readdir call: left is how many more entries the
\* consumer takes in this call, -1 for one that takes them all; refused says
\* that the consumer has refused an entry in this call.
dir_emit(ctx, name, ino, type) ==
  IF ctx.left = 0 THEN [ok |-> FALSE, ctx |-> [ctx EXCEPT !.refused = TRUE]]
  ELSE [ok |-> TRUE,
        ctx |-> [ctx EXCEPT
                   !.emitted = Append(@, [name |-> name, ino |-> ino, type |-> type]),
                   !.left = IF @ > 0 THEN @ - 1 ELSE @]]

\* dir_emit_dots(file, ctx) of linux/fs.h: "." at position 0 and ".." at
\* position 1, each taking the position one further.
dir_emit_dots(ctx, ino, parent) ==
  LET dot == IF ctx.pos = 0
             THEN LET r == dir_emit(ctx, <<46>>, ino, 4)
                  IN [ok |-> r.ok,
                      ctx |-> IF r.ok THEN [r.ctx EXCEPT !.pos = 1, !.dots = @ + 1]
                              ELSE r.ctx]
             ELSE [ok |-> TRUE, ctx |-> ctx]
  IN IF ~dot.ok THEN dot
     ELSE IF dot.ctx.pos = 1
          THEN LET r == dir_emit(dot.ctx, <<46, 46>>, parent, 4)
               IN [ok |-> r.ok,
                   ctx |-> IF r.ok THEN [r.ctx EXCEPT !.pos = 2, !.dots = @ + 1]
                           ELSE r.ctx]
     ELSE dot

\* The while loop of tarfs_readdir.
RECURSIVE readdir_loop(_, _, _, _)
readdir_loop(list, entry, dir_path, ctx) ==
  IF entry = NULL THEN ctx
  ELSE IF streq(dir_path, list[entry].dirname)
       THEN LET counted == [ctx EXCEPT !.pos = @ + 1]
                r == dir_emit(counted, list[entry].basename, list[entry].inode,
                              list[entry].mode \div 4096)
            IN IF ~r.ok THEN r.ctx
               ELSE readdir_loop(list, list[entry].next, dir_path, r.ctx)
  ELSE readdir_loop(list, list[entry].next, dir_path, ctx)

\* int tarfs_readdir(file, ctx): the context it leaves.
readdir(list, dir, ctx) ==
  LET dir_path == build_lookup_path(dir, list)
  IN IF ctx.pos > 0 THEN ctx
     ELSE LET dots == dir_emit_dots(ctx, dir.i_ino, dir.parent)
          IN IF ~dots.ok THEN dots.ctx
             ELSE readdir_loop(list, first(list), dir_path.s, dots.ctx)

(***************************************************************************)
(* The devices the model starts from.                                      *)
(***************************************************************************)
BlockSizes == {512, 1024}

\* The sectors of a member: its header, then its payload padded to sectors.
MemberSectors(id) ==
  LET m == Members[id]
  IN <<[k |-> "hdr", id |-> id]>> \o
     [j \in 1..((m.n + SECTOR - 1) \div SECTOR) |->
        [k |-> "data", seed |-> m.seed, base |-> (j - 1) * SECTOR,
         n |-> min_t(SECTOR, m.n - (j - 1) * SECTOR)]]

RECURSIVE Flatten(_)
Flatten(ids) ==
  IF ids = <<>> THEN <<>> ELSE MemberSectors(Head(ids)) \o Flatten(Tail(ids))

\* What follows the members: the end marker of two zero sectors, or a bad
\* header with a sector of payload, then one more well-formed member and the
\* end marker.
EndSectors(e) ==
  LET zero == [k |-> "zero"]
  IN IF e = "end" THEN <<zero, zero>>
     ELSE <<[k |-> "hdr", id |-> e],
            [k |-> "data", seed |-> Members.after.seed, base |-> 0, n |-> Members.after.n]>>
          \o MemberSectors("after") \o <<zero, zero>>

\* The device that holds the members and the end, padded with zero sectors to a
\* whole number of the largest blocks.
Device(ids, e) ==
  LET raw == Flatten(ids) \o EndSectors(e)
      per == 1024 \div SECTOR
      pad == (per - (Len(raw) % per)) % per
  IN raw \o [j \in 1..pad |-> [k |-> "zero"]]

\* The sequences of at most n members out of ids.
RECURSIVE MemberSeqs(_, _)
MemberSeqs(n, ids) ==
  IF n = 0 THEN {<<>>}
  ELSE LET shorter == MemberSeqs(n - 1, ids)
       IN shorter \cup {Append(seq, id) : seq \in shorter, id \in ids}

\* No block is faulty, or one of the first blocks is.
NoFault == [b \in {} |-> "ok"]

Faults ==
  {[b \in {blk} |-> kind] : blk \in 0..MaxBadBlock, kind \in {"null", "short", "long"}}

\* The device of zero blocks.
Empty == [dev |-> <<>>, bad |-> NoFault]

\* The devices without a fault: the empty one and those that hold a well-ended
\* archive of at most n members out of ids.
WellEnded(n, ids) ==
  {Empty} \cup { [dev |-> Device(seq, "end"), bad |-> NoFault] : seq \in MemberSeqs(n, ids) }

\* The devices without a fault that hold at most MaxBadEntries members, then a
\* bad header.
BadEnded ==
  { [dev |-> Device(seq, e), bad |-> NoFault] :
      seq \in MemberSeqs(MaxBadEntries, MemberIds), e \in DOMAIN BadFields }

\* The devices with a faulty block: they hold a well-ended archive of at most
\* MaxFaultEntries members.
Faulty ==
  { [dev |-> Device(seq, "end"), bad |-> b] :
      seq \in MemberSeqs(MaxFaultEntries, FaultMemberIds), b \in Faults }
NoHandle == [t |-> "none"]

NoRead == [off |-> 0, len |-> 0, ret |-> 0, blocks |-> <<>>, faults |-> <<>>,
           oops |-> FALSE, result |-> 0]

(***************************************************************************)
(* The state machine.                                                      *)
(***************************************************************************)
InitOn(devices) ==
  /\ \E d \in devices : dev = d.dev /\ bad = d.bad
  /\ s_blocksize \in BlockSizes
  /\ pc = "unmounted"
  /\ s_fs_info = <<>>
  /\ ret = 0
  /\ cur = RootInode
  /\ h = NoHandle

\* The devices on which files are read.
Init == InitOn(WellEnded(MaxReadEntries, MemberIds) \cup Faulty)

\* The devices on which the index is explored.
InitIndex == InitOn(WellEnded(MaxEntries, MemberIds) \cup BadEnded \cup Faulty)

\* int tarfs_fill_sb(sb, data, silent): the mount.  opened is what tar_open
\* returned.
tarfs_fill_sb ==
  /\ pc = "unmounted"
  /\ \E opened \in {tar_open(ub) : ub \in UBOutcomes} :
       IF opened.oops
       THEN /\ pc' = "oops"
            /\ UNCHANGED <<s_fs_info, ret>>
       ELSE IF first(opened.list) = NULL
       THEN /\ pc' = "failed"
            /\ ret' = -ENOMEM
            /\ UNCHANGED s_fs_info
       ELSE /\ pc' = "mounted"
            /\ s_fs_info' = opened.list
            /\ ret' = 0
  /\ cur' = RootInode
  /\ h' = NoHandle
  /\ UNCHANGED <<dev, s_blocksize, bad>>

\* void tarfs_kill_sb(sb): the unmount.
tarfs_kill_sb ==
  /\ pc = "mounted"
  /\ pc' = "unmounted"
  /\ s_fs_info' = tar_free(s_fs_info)
  /\ ret' = 0
  /\ cur' = RootInode
  /\ h' = NoHandle
  /\ UNCHANGED <<dev, s_blocksize, bad>>

\* The names that are looked up.
Names == {Str_a, Str_b, Str_c}

\* struct dentry *tarfs_lookup(dir, dentry, flags): the path walk takes one
\* step from the directory cur; it moves to the inode found.
tarfs_lookup ==
  /\ pc = "mounted"
  /\ cur.ops = "dir"
  /\ \E name \in Names :
       \E dir_path \in {build_lookup_path(cur, s_fs_info)} :
         \E found_entry \in {tar_find(s_fs_info, first(s_fs_info), dir_path.s, name)} :
           \E inode \in {IF found_entry # NULL
                         THEN tarfs_build_inode(s_fs_info[found_entry], cur.i_ino)
                         ELSE NULL} :
             /\ h' = [t |-> "lookup", dir |-> cur.i_ino, dir_path |-> dir_path.s,
                      name |-> name, found_entry |-> found_entry, inode |-> inode]
             /\ cur' = IF found_entry # NULL THEN inode ELSE cur
  /\ UNCHANGED <<dev, s_blocksize, bad, pc, s_fs_info, ret>>

\* The path walk starts again at the root.
WalkFromRoot ==
  /\ pc = "mounted"
  /\ cur # RootInode \/ h # NoHandle
  /\ cur' = RootInode
  /\ h' = NoHandle
  /\ UNCHANGED <<dev, s_blocksize, bad, pc, s_fs_info, ret>>

\* The directory cur is opened: the position of a fresh directory file is 0.
OpenDir ==
  /\ pc = "mounted"
  /\ cur.ops = "dir"
  /\ h' = [t |-> "dir", inode |-> cur, pos |-> 0, emitted |-> <<>>, dots |-> 0,
           calls |-> 0, unlimited |-> TRUE, refused |-> FALSE, interrupted |-> FALSE]
  /\ UNCHANGED <<dev, s_blocksize, bad, pc, s_fs_info, ret, cur>>

\* int tarfs_readdir(file, ctx), called with a consumer that takes cap entries
\* (-1: all of them); unlimited says that every call on the open directory so
\* far had a consumer that takes them all, refused that the consumer refused an
\* entry in the last call, interrupted that it did so in some call.
tarfs_readdir ==
  /\ pc = "mounted"
  /\ h.t = "dir"
  /\ h.calls < MaxCalls
  /\ \E cap \in (0..MaxCap) \cup {-1} :
       \E after \in {readdir(s_fs_info, h.inode,
                             [pos |-> h.pos, emitted |-> h.emitted, dots |-> h.dots,
                              left |-> cap, refused |-> FALSE])} :
         h' = [h EXCEPT !.pos = after.pos,
                        !.emitted = after.emitted,
                        !.dots = after.dots,
                        !.calls = @ + 1,
                        !.unlimited = @ /\ cap = -1,
                        !.refused = after.refused,
                        !.interrupted = @ \/ after.refused]
  /\ UNCHANGED <<dev, s_blocksize, bad, pc, s_fs_info, ret, cur>>

\* int tarfs_file_release(inode, file), and the close of a directory.
tarfs_file_release ==
  /\ pc = "mounted"
  /\ h.t \in {"file", "dir"}
  /\ h' = NoHandle
  /\ UNCHANGED <<dev, s_blocksize, bad, pc, s_fs_info, ret, cur>>

\* The byte counts a read asks for, the positions a file is opened at, and
\* what copy_to_user leaves uncopied (the user buffer is writable).
Counts == {2, 8, 510, 600}

SeekTo == {0, 6}

NotCopied == {0}

\* generic_file_open, and generic_file_llseek to the position the reads start
\* at: the file cur is opened.
OpenFile ==
  /\ pc = "mounted"
  /\ cur.ops = "file"
  /\ \E p \in SeekTo :
       h' = [t |-> "file", inode |-> cur, start |-> p, pos |-> p, got |-> <<>>,
             reads |-> 0, last |-> NoRead]
  /\ UNCHANGED <<dev, s_blocksize, bad, pc, s_fs_info, ret, cur>>

\* ssize_t tarfs_file_read(file, userbuf, count, pos).  not_copied is what
\* copy_to_user could not copy, rd what tar_read returned.
tarfs_file_read ==
  /\ pc = "mounted"
  /\ h.t = "file"
  /\ h.reads < MaxReads
  /\ \E count \in Counts, not_copied \in NotCopied :
       \E entry \in {tarfs_find_by_inode(s_fs_info, first(s_fs_info), h.inode.i_ino)} :
         IF first(s_fs_info) = NULL \/ entry = NULL
         THEN /\ h' = [h EXCEPT !.reads = @ + 1,
                                !.last = [NoRead EXCEPT !.result = -ENOENT]]
              /\ pc' = pc
         ELSE \E rd \in {tar_read(s_fs_info[entry], h.pos, count, ub) : ub \in UBOutcomes} :
                IF rd.oops
                THEN /\ h' = [h EXCEPT
                                !.reads = @ + 1,
                                !.last = [off |-> h.pos, len |-> count, ret |-> rd.ret,
                                          blocks |-> rd.blocks, faults |-> rd.faults,
                                          oops |-> TRUE, result |-> 0]]
                     /\ pc' = "oops"
                ELSE IF not_copied > rd.ret
                THEN /\ h' = [h EXCEPT
                                !.reads = @ + 1,
                                !.last = [off |-> h.pos, len |-> count, ret |-> rd.ret,
                                          blocks |-> rd.blocks, faults |-> rd.faults,
                                          oops |-> FALSE, result |-> -EBADF]]
                     /\ pc' = pc
                ELSE /\ h' = [h EXCEPT
                                !.reads = @ + 1,
                                !.pos = @ + (rd.ret - not_copied),
                                !.got = @ \o SubSeq(rd.data, 1, rd.ret - not_copied),
                                !.last = [off |-> h.pos, len |-> count, ret |-> rd.ret,
                                          blocks |-> rd.blocks, faults |-> rd.faults,
                                          oops |-> FALSE,
                                          result |-> rd.ret - not_copied]]
                     /\ pc' = pc
  /\ UNCHANGED <<dev, s_blocksize, bad, s_fs_info, ret, cur>>

NextIndex ==
  \/ tarfs_fill_sb
  \/ tarfs_kill_sb
  \/ tarfs_lookup
  \/ WalkFromRoot
  \/ OpenDir
  \/ tarfs_readdir
  \/ tarfs_file_release

Next ==
  \/ NextIndex
  \/ OpenFile
  \/ tarfs_file_read

\* Files are read on the devices of Init.
Spec == Init /\ [][Next]_vars

\* The index is explored on the devices of InitIndex.
SpecIndex == InitIndex /\ [][NextIndex]_vars

(***************************************************************************)
(* The payload reader: tar_read and tarfs_read.                            *)
(***************************************************************************)
\* A read call on the open file has returned from tar_read.
ReadDone ==
  /\ pc \in {"mounted", "oops"}
  /\ h.t = "file"
  /\ h.reads > 0
  /\ h.last.result # -ENOENT

\* The entry of the open file.
OpenEntry == s_fs_info[tarfs_find_by_inode(s_fs_info, first(s_fs_info), h.inode.i_ino)]

\* C1: a tar_read at a payload offset off >= L, strictly greater ones too,
\* returns 0 bytes and fetches no block, whatever length is asked for.
C1_ReadAtOrPastEndIsEmpty ==
  (ReadDone /\ h.last.off >= OpenEntry.length) =>
    /\ ~h.last.oops
    /\ h.last.ret = 0
    /\ h.last.blocks = <<>>

\* C2: on a store without faults, the chunks read one after the other from
\* offset 0 are, put together, the store's bytes from data_offset on; once they
\* tile [0, L) they are what the single tar_read(entry, 0, L) returns, which is
\* the store's bytes [data_offset, data_offset + L).
C2_ChunksTileThePayload ==
  (pc = "mounted" /\ h.t = "file" /\ h.start = 0 /\ bad = NoFault) =>
    LET e      == OpenEntry
        store  == StoreBytes(dev, e.data_offset, e.length)
        single == tar_read(e, 0, e.length, Oops)
    IN /\ h.pos <= e.length
       /\ h.got = SubSeq(store, 1, h.pos)
       /\ ~single.oops
       /\ single.ret = e.length
       /\ single.data = store
       /\ (h.pos = e.length => h.got = single.data)

\* The payload of 520 bytes is tiled by two chunks or more, the last of which
\* starts inside the payload and takes its bytes from two blocks.
C2_TiledAcrossBlocks ==
  /\ pc = "mounted" /\ h.t = "file" /\ h.start = 0 /\ bad = NoFault
  /\ h.reads >= 2
  /\ h.pos = OpenEntry.length
  /\ Len(h.got) = 520
  /\ h.last.off > 0
  /\ Len(h.last.blocks) = 2

\* C8: a tarfs_read (here one made for a read inside the payload) one of whose
\* block fetches failed, or returned a block of another size than the block
\* size, reports the failure: it copies nothing from that block and does not
\* return the full count asked for.
C8_FailedFetchIsReported ==
  (ReadDone /\ h.last.off < OpenEntry.length /\ h.last.faults # <<>>) =>
    /\ ~h.last.oops
    /\ \A i \in 1..Len(h.last.faults) : h.last.faults[i].copied = 0
    /\ h.last.ret < to_read(h.last.len, OpenEntry.length, h.last.off)

(***************************************************************************)
(* The index: what the device holds, against what tar_open made of it.     *)
(***************************************************************************)
\* The positions (from 1) of the header sectors of device d, in order.
HeaderSectors(d) == SelectSeq([i \in 1..Len(d) |-> i], LAMBDA i : d[i].k = "hdr")

\* The positions in front of the first bad header.
RECURSIVE ValidPrefix(_, _)
ValidPrefix(d, at) ==
  IF at = <<>> \/ d[Head(at)].id \in DOMAIN BadFields THEN <<>>
  ELSE <<Head(at)>> \o ValidPrefix(d, Tail(at))

\* The device holds a bad header.
HasBadHeader(d) == \E i \in 1..Len(d) : d[i].k = "hdr" /\ d[i].id \in DOMAIN BadFields

\* The prefix and the name of the header in sector at of the device, one after
\* the other, as the archive has them.
RawName(d, at) == Headers[d[at].id].prefix \o Headers[d[at].id].name

\* x rounded up to the next multiple of 512.
RoundUp(x) == ((x + SECTOR - 1) \div SECTOR) * SECTOR

\* Entry e is the entry of the header in sector at of the device.
EntryAt(e, d, at) ==
  LET raw == RawName(d, at)
  IN /\ e.offset = (at - 1) * SECTOR
     /\ e.length = Members[d[at].id].n
     /\ e.header.typeflag = Headers[d[at].id].typeflag[1]
     /\ tarfs_full_name(e) = IF raw[Len(raw)] = SLASH THEN SubSeq(raw, 1, Len(raw) - 1)
                             ELSE raw

\* The byte ranges [a, b) and [c, d) share no byte.
Disjoint(a, b, c, d) == a >= b \/ c >= d \/ b <= c \/ d <= a

\* C3: of two entries with the same directory path and name, tar_find returns
\* the one from the later position of the archive.
C3_FindReturnsLastOccurrence ==
  (pc = "mounted" /\ h.t = "lookup" /\ h.found_entry # NULL) =>
    \A j \in 1..Len(s_fs_info) :
      (s_fs_info[j].dirname = h.dir_path /\ s_fs_info[j].basename = h.name)
        => j <= h.found_entry

\* The path of the directory that is open.
OpenDirPath ==
  IF h.inode.i_ino = ROOT_INO THEN <<>>
  ELSE LET e == CHOOSE e \in {s_fs_info[i] : i \in 1..Len(s_fs_info)} :
                  e.inode = h.inode.i_ino
       IN IF e.dirname = <<>> THEN e.basename ELSE e.dirname \o <<SLASH>> \o e.basename

\* The entries whose directory path is that of the open directory, in the
\* order of the archive.
Children == SelectSeq(s_fs_info, LAMBDA e : e.dirname = OpenDirPath)

\* A listing of the open directory was started at position 0 with a consumer
\* that takes every entry.
ListedAtOnce == pc = "mounted" /\ h.t = "dir" /\ h.calls = 1 /\ h.unlimited

\* C4: a listing started at position 0 with a consumer that takes every entry
\* emits, after "." and "..", exactly the entries whose directory path is the
\* directory's, each once and in the order of the archive.
C4_ListingIsTheChildren ==
  ListedAtOnce =>
    /\ h.dots = 2
    /\ Len(h.emitted) = 2 + Len(Children)
    /\ \A i \in 1..Len(Children) :
         /\ h.emitted[2 + i].ino = Children[i].inode
         /\ h.emitted[2 + i].name = Children[i].basename

\* A directory that is not the root is listed: it has a child, and the archive
\* has entries of other directories in front of the child and after it.
C4_ListedSubdirectory ==
  /\ ListedAtOnce
  /\ h.inode.i_ino # ROOT_INO
  /\ Len(Children) = 1
  /\ Len(s_fs_info) = 3
  /\ s_fs_info[2].dirname = OpenDirPath

\* C5: an entry of a header whose prefix and name end in '/' is a directory,
\* whatever its type flag is, and neither its name nor its directory path ends
\* in a separator.
C5_TrailingSlashIsDirectory ==
  (pc = "mounted" /\ bad = NoFault) =>
    \A i \in 1..Len(s_fs_info) :
      LET e   == s_fs_info[i]
          raw == RawName(dev, (e.offset \div SECTOR) + 1)
      IN raw[Len(raw)] = SLASH =>
           /\ BitAnd(tarfs_entry_mode(e), 61440, 16) = S_IFDIR
           /\ tarfs_build_inode(e, ROOT_INO).ops = "dir"
           /\ (e.basename = <<>> \/ e.basename[Len(e.basename)] # SLASH)
           /\ (e.dirname = <<>> \/ e.dirname[Len(e.dirname)] # SLASH)

\* C6: the open of a store without a valid first header (a store of zero
\* blocks, or one whose first block is all zero) succeeds with an index of zero
\* entries and reports no failure.
C6_EmptyStoreOpens ==
  (pc # "unmounted" /\ bad = NoFault /\ (dev = <<>> \/ dev[1].k = "zero")) =>
    /\ pc = "mounted"
    /\ ret = 0
    /\ s_fs_info = <<>>

\* C7: when k >= 1 valid headers are followed by a header with a bad size,
\* mode, uid, gid or magic, the index is the k entries of the valid headers in
\* the order of the archive, and the next link of the last one is empty.
C7_BadHeaderEndsTheIndex ==
  (pc = "mounted" /\ bad = NoFault /\ HasBadHeader(dev)) =>
    LET valid == ValidPrefix(dev, HeaderSectors(dev))
    IN /\ Len(s_fs_info) = Len(valid)
       /\ \A i \in 1..Len(valid) :
            /\ EntryAt(s_fs_info[i], dev, valid[i])
            /\ s_fs_info[i].next = IF i < Len(valid) THEN i + 1 ELSE NULL

\* Two valid headers and then a header with a bad size, after which the
\* archive goes on with a valid header.
C7_TwoEntriesThenBadSize ==
  /\ pc = "mounted" /\ bad = NoFault
  /\ Len(s_fs_info) = 2
  /\ \E i \in 1..Len(dev) : dev[i].k = "hdr" /\ dev[i].id = "size"
  /\ Len(HeaderSectors(dev)) = 4

\* C9: the inode numbers of an index increase along the list and are all
\* greater than ROOT_INO, so a search by inode number finds every entry by its
\* own number and finds none by the root's.
C9_InodeNumbersDistinct ==
  pc = "mounted" =>
    /\ \A i, j \in 1..Len(s_fs_info) : i < j => s_fs_info[i].inode < s_fs_info[j].inode
    /\ \A i \in 1..Len(s_fs_info) :
         /\ s_fs_info[i].inode > ROOT_INO
         /\ tarfs_find_by_inode(s_fs_info, first(s_fs_info), s_fs_info[i].inode) = i
    /\ tarfs_find_by_inode(s_fs_info, first(s_fs_info), ROOT_INO) = NULL

\* An index of three entries.
C9_ThreeEntries == pc = "mounted" /\ Len(s_fs_info) = 3

EmittedChildren == SubSeq(h.emitted, h.dots + 1, Len(h.emitted))

\* C11: when the consumer has refused an entry in some call on the open
\* directory, the calls taken together deliver every child once and in the
\* order of the archive: the children emitted so far are always the first
\* children of the directory, and a call the consumer did not cut short leaves
\* no child undelivered.
C11_InterruptedListingResumes ==
  (pc = "mounted" /\ h.t = "dir" /\ h.interrupted) =>
    /\ Len(EmittedChildren) <= Len(Children)
    /\ \A i \in 1..Len(EmittedChildren) :
         /\ EmittedChildren[i].ino = Children[i].inode
         /\ EmittedChildren[i].name = Children[i].basename
    /\ (~h.refused => Len(EmittedChildren) = Len(Children))

=============================================================================
